---- MODULE Spec2Model ----
(***************************************************************************)
(* FastPan (fastpan.py): share links, sessions, the routes on the file tree *)
(* and the path confinement under them.                                    *)
(* Paths are sequences of one-character strings, so that the               *)
(* string prefix test of safe_path is a test on characters, and resolved   *)
(* paths are sequences of components (each a sequence of characters).      *)
(***************************************************************************)
EXTENDS Integers, Sequences, FiniteSets, TLC

VARIABLES
    now,      \* time.time(), in seconds
    TOKENS,   \* session table: session token -> expiry
    SHARES,   \* in-memory share table: share token -> entry
    file,     \* content of storage/shares.json: Missing, Corrupt or a set of JSON members
    issued,   \* number of share tokens secrets.token_urlsafe(8) has produced so far
    req,      \* the last request handled (or operation run)
    resp,     \* the answer to it
    probe,    \* safe_path called on its own: [rel, out, done]
    given,    \* history: share token -> the ttl and password of its /share request
    tree,     \* the files and directories on disk (resolved paths)
    writer,   \* save_shares step by step: where it stands, and shares.tmp
    calls     \* clients with a /share request: what each sent and what it got

vars == <<now, TOKENS, SHARES, file, issued, req, resp, probe, given, tree, writer, calls>>

\* ------------------------------------------------------------------ bounds
MaxLen == 5       \* longest relative path given to safe_path on its own
MaxTime == 3      \* the clock stops advancing here
MaxIssued == 2    \* share tokens issued in one run
MaxSessions == 1  \* logins in one run
MaxCallers == 2   \* clients that send a /share request at the same time

\* ------------------------------------------------------------------ values
\* Python's None; a value that may be None is held as <<v>>
None == <<>>
Some(v) == <<v>>
\* bool(v) of an optional number / an optional string
TruthyNum(v) == v # None /\ v[1] # 0
TruthyStr(v) == v # None /\ v[1] # ""

\* ------------------------------------------------------------------ paths
\* a path string is a tuple of characters: "../s2" is <<".", ".", "/", "s", "2">>
\* the working directory of the process, and STORAGE = Path("storage") in it:
\* one-letter names keep the strings short ("/r/s" for <cwd>/storage)
Cwd == << <<"r">> >>
STORAGE == << <<"s">> >>

RECURSIVE lstrip(_)
\* rel.lstrip("/")
lstrip(s) == IF s # <<>> /\ Head(s) = "/" THEN lstrip(Tail(s)) ELSE s

RECURSIVE SplitFrom(_, _, _)
\* the components of a path string: split on "/", empty components dropped
SplitFrom(s, cur, acc) ==
    IF s = <<>> THEN (IF cur = <<>> THEN acc ELSE Append(acc, cur))
    ELSE IF Head(s) = "/"
         THEN SplitFrom(Tail(s), <<>>, IF cur = <<>> THEN acc ELSE Append(acc, cur))
         ELSE SplitFrom(Tail(s), Append(cur, Head(s)), acc)

Parts(s) == SplitFrom(s, <<>>, <<>>)

RECURSIVE Walk(_, _)
\* Path.resolve() without symbolic links: "." stays, ".." goes up (and stays at "/")
Walk(base, parts) ==
    IF parts = <<>> THEN base
    ELSE LET c == Head(parts) IN
         IF c = <<".">> THEN Walk(base, Tail(parts))
         ELSE IF c = <<".", ".">>
              THEN Walk(IF base = <<>> THEN base ELSE SubSeq(base, 1, Len(base) - 1),
                        Tail(parts))
              ELSE Walk(Append(base, c), Tail(parts))

\* (STORAGE / rel).resolve(): a rel that starts with "/" replaces the left operand
Resolve(rel) ==
    IF rel # <<>> /\ Head(rel) = "/"
    THEN Walk(<<>>, Parts(rel))
    ELSE Walk(Cwd \o STORAGE, Parts(rel))

RECURSIVE Str(_)
\* str(p) of an absolute path
Str(p) == IF p = <<>> THEN <<>> ELSE <<"/">> \o Head(p) \o Str(Tail(p))

PathStr(p) == IF p = <<>> THEN <<"/">> ELSE Str(p)

\* a.startswith(b)
startswith(a, b) == Len(a) >= Len(b) /\ SubSeq(a, 1, Len(b)) = b

\* safe_path without rel.lstrip("/")
safe_path_unstripped(rel0) ==
    LET p == Resolve(rel0)
    IN  IF ~startswith(PathStr(p), PathStr(Cwd \o STORAGE))
        THEN [ok |-> FALSE, p |-> <<>>]
        ELSE [ok |-> TRUE, p |-> p]

\* safe_path(rel): [ok |-> FALSE] is the ValueError
safe_path(rel0) ==
    LET rel == lstrip(rel0)
        p == Resolve(rel)
    IN  IF ~startswith(PathStr(p), PathStr(Cwd \o STORAGE))
        THEN [ok |-> FALSE, p |-> <<>>]
        ELSE [ok |-> TRUE, p |-> p]

\* ------------------------------------------------------------------ the file tree
\* what lies on disk (resolved paths): one file under the root, one beside it
FILES == { Cwd \o STORAGE \o << <<"d">> >>, Cwd \o << <<"e">> >> }
DIRS == { <<>>, Cwd, Cwd \o STORAGE }
is_file(p) == p \in tree.files
is_dir(p) == p \in tree.dirs

\* ------------------------------------------------------------------ configuration
USERNAME == "admin"
PASSWORD == "admin"
SECRET_KEY == "fastpan-secret"
TOKEN_TTL == 3600

\* ------------------------------------------------------------------ sessions
\* is_login(req): t = req.cookies.get("token")
is_login(cookie) == cookie \in DOMAIN TOKENS /\ TOKENS[cookie] > now

\* ------------------------------------------------------------------ the share store
\* hashlib.sha256((pw + SECRET_KEY).encode()).hexdigest(): the digest of a message
\* is known only by the message it is of (no collisions)
hash_pw(pw) == <<"sha256", pw, SECRET_KEY>>

\* d.get(k)
get(d, k) == IF k \in DOMAIN d THEN d[k] ELSE None

\* json.dump / json.load of one value: None <-> null, a number, a string
JsonValue(v) == IF v = None THEN [t |-> "null", v |-> <<>>] ELSE [t |-> "lit", v |-> v]
PyValue(j) == IF j.t = "null" THEN None ELSE j.v

\* json.dump(SHARES, f): an object of objects, keyed by token
dumps(table) == [t \in DOMAIN table |-> [k \in DOMAIN table[t] |-> JsonValue(table[t][k])]]
\* json.load(f)
loads(doc) == [t \in DOMAIN doc |-> [k \in DOMAIN doc[t] |-> PyValue(doc[t][k])]]

EmptyTable == [t \in {} |-> None]
Missing == [state |-> "missing", doc |-> EmptyTable]

\* save_shares that leaves the file as it is
save_shares_lost(table) == file

\* save_shares(): the whole table to shares.tmp, then os.replace over shares.json
save_shares(table) == [state |-> "json", doc |-> dumps(table)]

\* load_shares with "exp <= now" for "exp < now"
expired_at_load_or_now(e) == TruthyNum(get(e, "exp")) /\ get(e, "exp")[1] <= now

\* the loop of load_shares: for k in list(SHARES.keys()): if exp and exp < now: del
expired_at_load(e) == TruthyNum(get(e, "exp")) /\ get(e, "exp")[1] < now
reap(table) == [t \in {k \in DOMAIN table : ~expired_at_load(table[k])} |-> table[t]]

\* SHARES after the first half of load_shares: the file when it exists and parses,
\* {} when it exists and does not parse, the table as it was when there is no file
read_shares ==
    IF file.state = "missing" THEN SHARES
    ELSE IF file.state = "json" THEN loads(file.doc)
    ELSE EmptyTable

\* ------------------------------------------------------------------ requests, answers
\* secrets.token_urlsafe(n): a value never drawn before
ShareToken(i) == <<"share", i>>
SessionToken(i) == <<"session", i>>

Request(op, cookie, token, path, ttl, pw) ==
    [op |-> op, cookie |-> cookie, token |-> token, path |-> path, ttl |-> ttl, pw |-> pw]
Response(code, kind, of) == [code |-> code, kind |-> kind, of |-> of]

\* HTMLResponse(<link no longer valid>, 404): one body for an unknown and an expired token
LinkInvalid == Response(404, "link_invalid", <<>>)
\* HTMLResponse(<wrong password>, status_code=403)
WrongPassword == Response(403, "wrong_password", <<>>)
\* an exception that leaves the handler: the framework answers 500
ServerError == Response(500, "error", <<>>)

\* download(path): the zip of a directory, the bytes of a file; FileResponse of a
\* path that is no file fails when it is sent
download(path) ==
    LET r == safe_path(path) IN
    IF ~r.ok THEN ServerError
    ELSE IF is_dir(r.p) THEN Response(200, "zip", r.p)
    ELSE IF is_file(r.p) THEN Response(200, "file", r.p)
    ELSE ServerError

\* the expiry test turned round
expired_not_yet(d) == TruthyNum(get(d, "exp")) /\ d["exp"][1] > now

\* d.get("exp") and d["exp"] < time.time()
expired(d) == TruthyNum(get(d, "exp")) /\ d["exp"][1] < now

\* share with "ttl >= 0" for "ttl > 0"
share_exp_from_zero(ttl) == IF ttl >= 0 THEN Some(now + ttl) ELSE None

\* share: exp = None; if ttl and ttl > 0: exp = time.time() + int(ttl)
share_exp(ttl) == IF ttl # 0 /\ ttl > 0 THEN Some(now + ttl) ELSE None

\* share: entry = {"path": path, "exp": exp}; if pw: entry["pw_hash"] = hash_pw(pw)
share_entry(path, ttl, pw) ==
    IF pw # ""
    THEN [path |-> Some(path), exp |-> share_exp(ttl), pw_hash |-> Some(hash_pw(pw))]
    ELSE [path |-> Some(path), exp |-> share_exp(ttl)]

\* download_share_post without "not pw"
pw_rejected_when_given(pw, d) == TruthyStr(pw) /\ Some(hash_pw(pw[1])) # get(d, "pw_hash")

\* download_share_post: not pw or hash_pw(pw) != d.get("pw_hash")
pw_rejected(pw, d) == ~TruthyStr(pw) \/ Some(hash_pw(pw[1])) # get(d, "pw_hash")

\* ------------------------------------------------------------------ inputs
Cookies == {None, SessionToken(1), SessionToken(2)}
\* "d": a file under the root; "n": no such file; "../e": a file beside the root
SharePaths == { <<"d">>, <<"n">>, <<".", ".", "/", "e">> }
Ttls == {-1, 0, 1}
SharePasswords == {"", "a"}
FormPasswords == {None, Some(""), Some("a"), Some("b")}
Credentials == {"admin", "guest"}
\* the file under the root
StorePaths == { <<"d">> }
TokenInputs == {ShareToken(i) : i \in 1..MaxIssued}

\* no save_shares under way, no shares.tmp
NoWriter == [pc |-> "idle", tmp |-> Missing, token |-> None]
\* no client has sent anything
NoCalls == [c \in {} |-> None]

NoProbe == [rel |-> <<>>, out |-> [ok |-> FALSE, p |-> <<>>], done |-> FALSE]

\* ------------------------------------------------------------------ the server
\* module level: TOKENS = {}, SHARES = {}; nothing reads shares.json at start
Init ==
    /\ now = 1
    /\ TOKENS = EmptyTable
    /\ SHARES = EmptyTable
    /\ file = Missing
    /\ issued = [share |-> 0, session |-> 0]
    /\ req = Request("start", None, None, <<>>, 0, None)
    /\ resp = Response(0, "none", <<>>)
    /\ probe = NoProbe
    /\ given = EmptyTable
    /\ tree = [files |-> FILES, dirs |-> DIRS]
    /\ writer = NoWriter
    /\ calls = NoCalls

\* the clock
Tick ==
    /\ now < MaxTime
    /\ now' = now + 1
    /\ req' = Request("tick", None, None, <<>>, 0, None)
    /\ resp' = Response(0, "none", <<>>)
    /\ UNCHANGED <<TOKENS, SHARES, file, issued, probe, given, tree, writer, calls>>

\* the process stops and starts again: the module level runs anew, the file stays
Restart ==
    /\ TOKENS' = EmptyTable
    /\ SHARES' = EmptyTable
    /\ req' = Request("restart", None, None, <<>>, 0, None)
    /\ resp' = Response(0, "none", <<>>)
    /\ UNCHANGED <<now, file, issued, probe, given, tree, writer, calls>>

\* POST /login
login(username, password) ==
    /\ issued.session < MaxSessions
    /\ req' = Request("login", None, None, <<>>, 0, None)
    /\ IF username = USERNAME /\ password = PASSWORD
       THEN LET t == SessionToken(issued.session + 1) IN
            /\ TOKENS' = [k \in DOMAIN TOKENS \cup {t} |->
                              IF k = t THEN now + TOKEN_TTL ELSE TOKENS[k]]
            /\ issued' = [issued EXCEPT !.session = @ + 1]
            /\ resp' = Response(302, "cookie", t)
       ELSE /\ resp' = Response(302, "login_failed", <<>>)
            /\ UNCHANGED <<TOKENS, issued>>
    /\ UNCHANGED <<now, SHARES, file, probe, given, tree, writer, calls>>

\* GET /share/{path}: the handler
issue(cookie, path, ttl, pw) ==
    /\ issued.share < MaxIssued
    /\ LET t == ShareToken(issued.share + 1)
           entry == share_entry(path, ttl, pw)
           table == [k \in DOMAIN SHARES \cup {t} |-> IF k = t THEN entry ELSE SHARES[k]]
       IN  /\ SHARES' = table
           /\ file' = save_shares(table)
           /\ issued' = [issued EXCEPT !.share = @ + 1]
           /\ req' = Request("share", cookie, None, path, ttl, None)
           /\ resp' = Response(200, "url", t)
           /\ given' = [k \in DOMAIN given \cup {t} |->
                           IF k = t THEN [ttl |-> ttl, pw |-> pw] ELSE given[k]]
    /\ UNCHANGED <<now, TOKENS, probe, tree, writer>>

\* GET /share/{path}
share(cookie, path, ttl, pw) == issue(cookie, path, ttl, pw) /\ UNCHANGED calls

\* GET /s/{token}: the page with name, expiry and size
shared_response(token) ==
    LET d == get(SHARES, token) IN
    IF d = None THEN LinkInvalid
    ELSE IF expired(d) THEN LinkInvalid
    ELSE IF ~safe_path(d["path"][1]).ok THEN ServerError
    ELSE Response(200, "page", safe_path(d["path"][1]).p)

shared(token) ==
    /\ req' = Request("shared", None, token, <<>>, 0, None)
    /\ resp' = shared_response(token)
    /\ UNCHANGED <<now, TOKENS, SHARES, file, issued, probe, given, tree, writer, calls>>

\* GET /download-share/{token}
download_share_get_response(token) ==
    LET d == get(SHARES, token) IN
    IF d = None THEN LinkInvalid
    ELSE IF expired(d) THEN LinkInvalid
    ELSE IF get(d, "pw_hash") # None THEN Response(200, "password_form", <<>>)
    ELSE download(d["path"][1])

\* a download that uses the token up
download_share_get_once(token) ==
    /\ req' = Request("download_share_get", None, token, <<>>, 0, None)
    /\ resp' = download_share_get_response(token)
    /\ SHARES' = [t \in DOMAIN SHARES \ {token} |-> SHARES[t]]
    /\ file' = save_shares(SHARES')
    /\ UNCHANGED <<now, TOKENS, issued, probe, given, tree, writer, calls>>

download_share_get(token) ==
    /\ req' = Request("download_share_get", None, token, <<>>, 0, None)
    /\ resp' = download_share_get_response(token)
    /\ UNCHANGED <<now, TOKENS, SHARES, file, issued, probe, given, tree, writer, calls>>

\* POST /download-share/{token}
download_share_post_response(token, pw) ==
    LET d == get(SHARES, token) IN
    IF d = None THEN LinkInvalid
    ELSE IF expired(d) THEN LinkInvalid
    ELSE IF get(d, "pw_hash") # None /\ pw_rejected(pw, d) THEN WrongPassword
    ELSE download(d["path"][1])

download_share_post(token, pw) ==
    /\ req' = Request("download_share_post", None, token, <<>>, 0, pw)
    /\ resp' = download_share_post_response(token, pw)
    /\ UNCHANGED <<now, TOKENS, SHARES, file, issued, probe, given, tree, writer, calls>>

Next ==
    \/ Tick
    \/ Restart
    \/ \E u, p \in Credentials : login(u, p)
    \/ \E c \in Cookies, path \in SharePaths, ttl \in Ttls, pw \in SharePasswords :
          share(c, path, ttl, pw)
    \/ \E t \in TokenInputs : shared(t)
    \/ \E t \in TokenInputs : download_share_get(t)
    \/ \E t \in TokenInputs, pw \in FormPasswords : download_share_post(t, pw)

Spec == Init /\ [][Next]_vars

\* ------------------------------------------------------------------ the store on its own
\* load_shares(): no route and no start-up code calls it; here it is called as an
\* operation of its own, in one run of the process
load_shares ==
    LET read == read_shares
        kept == reap(read)
        changed == DOMAIN kept # DOMAIN read
    IN  /\ SHARES' = kept
        /\ file' = IF changed THEN save_shares(kept) ELSE file
        /\ req' = Request("load_shares", None, None, <<>>, 0, None)
        /\ resp' = Response(0, "none", <<>>)
        /\ UNCHANGED <<now, TOKENS, issued, probe, given, tree, writer, calls>>

\* save_shares() called on its own
save ==
    /\ file' = save_shares(SHARES)
    /\ req' = Request("save_shares", None, None, <<>>, 0, None)
    /\ resp' = Response(0, "none", <<>>)
    /\ UNCHANGED <<now, TOKENS, SHARES, issued, probe, given, tree, writer, calls>>

NextStore ==
    \/ Tick
    \/ load_shares
    \/ save
    \/ \E path \in StorePaths, ttl \in Ttls, pw \in SharePasswords :
          share(None, path, ttl, pw)
    \/ \E t \in TokenInputs : shared(t)
    \/ \E t \in TokenInputs : download_share_get(t)
    \/ \E t \in TokenInputs, pw \in FormPasswords : download_share_post(t, pw)

SpecStore == Init /\ [][NextStore]_vars

\* ------------------------------------------------------------------ save_shares step by step
\* share, with save_shares taken one system call at a time and the process free to
\* die between any two of them. The handler is a coroutine without an await, so no
\* other handler runs while it is under way.
Idle == writer.pc = "idle"

\* the place of a share token in the table (a dict keeps insertion order)
TokenIndex(t) == t[2]

\* the members json.dump has written so far, and the one it writes next
Written == DOMAIN writer.tmp.doc
NextMember ==
    CHOOSE t \in DOMAIN SHARES \ Written :
        \A u \in DOMAIN SHARES \ Written : TokenIndex(t) <= TokenIndex(u)

\* share, lines 513-520: the token is drawn and the entry put into SHARES
share_insert(path, ttl, pw) ==
    /\ Idle
    /\ issued.share < MaxIssued
    /\ LET t == ShareToken(issued.share + 1)
           entry == share_entry(path, ttl, pw)
       IN  /\ SHARES' = [k \in DOMAIN SHARES \cup {t} |-> IF k = t THEN entry ELSE SHARES[k]]
           /\ issued' = [issued EXCEPT !.share = @ + 1]
           /\ given' = [k \in DOMAIN given \cup {t} |->
                           IF k = t THEN [ttl |-> ttl, pw |-> pw] ELSE given[k]]
           /\ writer' = [writer EXCEPT !.pc = "open", !.token = t]
           /\ req' = Request("share", None, None, path, ttl, None)
           /\ resp' = Response(0, "none", <<>>)
    /\ UNCHANGED <<now, TOKENS, file, probe, tree, calls>>

\* save_shares writing into shares.json itself
save_open_in_place ==
    /\ writer.pc = "open"
    /\ file' = [state |-> "corrupt", doc |-> EmptyTable]
    /\ writer' = [writer EXCEPT !.pc = "dump", !.tmp = [state |-> "corrupt", doc |-> EmptyTable]]
    /\ UNCHANGED <<now, TOKENS, SHARES, issued, req, resp, probe, given, tree, calls>>

\* save_shares, line 92: open(tmp, "w") creates or empties shares.tmp
save_open ==
    /\ writer.pc = "open"
    /\ writer' = [writer EXCEPT !.pc = "dump", !.tmp = [state |-> "corrupt", doc |-> EmptyTable]]
    /\ UNCHANGED <<now, TOKENS, SHARES, file, issued, req, resp, probe, given, tree, calls>>

\* save_shares, line 93: json.dump writes the next member; the text parses once the
\* last one and the closing brace are written
save_dump ==
    /\ writer.pc = "dump"
    /\ LET t == NextMember
           doc == [k \in Written \cup {t} |-> dumps(SHARES)[k]]
           whole == DOMAIN doc = DOMAIN SHARES
       IN  writer' = [writer EXCEPT !.tmp = [state |-> IF whole THEN "json" ELSE "corrupt",
                                             doc |-> doc],
                                    !.pc = IF whole THEN "replace" ELSE "dump"]
    /\ UNCHANGED <<now, TOKENS, SHARES, file, issued, req, resp, probe, given, tree, calls>>

\* save_shares, line 94: os.replace(tmp, SHARE_FILE)
save_replace ==
    /\ writer.pc = "replace"
    /\ file' = writer.tmp
    /\ writer' = [writer EXCEPT !.pc = "return", !.tmp = Missing]
    /\ UNCHANGED <<now, TOKENS, SHARES, issued, req, resp, probe, given, tree, calls>>

\* share, lines 522-523: the answer
share_return ==
    /\ writer.pc = "return"
    /\ resp' = Response(200, "url", writer.token)
    /\ writer' = [writer EXCEPT !.pc = "idle", !.token = None]
    /\ UNCHANGED <<now, TOKENS, SHARES, file, issued, req, probe, given, tree, calls>>

\* the process dies, wherever it stands, and is started again: memory is lost, the
\* files stay as they are
crash ==
    /\ TOKENS' = EmptyTable
    /\ SHARES' = EmptyTable
    /\ writer' = [writer EXCEPT !.pc = "idle", !.token = None]
    /\ req' = Request("crash", None, None, <<>>, 0, None)
    /\ resp' = Response(0, "none", <<>>)
    /\ UNCHANGED <<now, file, issued, probe, given, tree, calls>>

NextWrite ==
    \/ Idle /\ Tick
    \/ \E path \in StorePaths, ttl \in Ttls, pw \in SharePasswords : share_insert(path, ttl, pw)
    \/ save_open
    \/ save_dump
    \/ save_replace
    \/ share_return
    \/ crash
    \/ \E t \in TokenInputs : Idle /\ download_share_get(t)

SpecWrite == Init /\ [][NextWrite]_vars

\* C11: the store file never holds a partial serialisation, at any step of a write
\* or after a crash at any step: whenever it changes, it becomes the complete
\* serialisation of the table being saved.
C11_StoreFileNeverPartial ==
    [][/\ file'.state # "corrupt"
       /\ file' # file => (file' = save_shares(SHARES) /\ loads(file'.doc) = SHARES)]_vars

\* the process died in the middle of a write: shares.tmp is partial, and the store
\* file still holds the version before it
C11_Witness ==
    /\ req.op = "crash"
    /\ writer.tmp.state = "corrupt" /\ writer.tmp.doc # EmptyTable
    /\ file.state = "json" /\ file.doc # EmptyTable

\* ------------------------------------------------------------------ a write that fails
\* share with save_shares step by step, where any of its system calls may raise
\* OSError (disk full, no permission on the store file)

\* open, f.write or os.replace raises: nothing in save_shares or share catches it,
\* the framework answers 500; shares.tmp stays as far as it was written
save_raise ==
    /\ writer.pc \in {"open", "dump", "replace"}
    /\ resp' = ServerError
    /\ writer' = [writer EXCEPT !.pc = "idle", !.token = None]
    /\ UNCHANGED <<now, TOKENS, SHARES, file, issued, req, probe, given, tree, calls>>

NextFail ==
    \/ Idle /\ Tick
    \/ \E path \in StorePaths, ttl \in Ttls, pw \in SharePasswords : share_insert(path, ttl, pw)
    \/ save_open
    \/ save_dump
    \/ save_replace
    \/ save_raise
    \/ share_return
    \/ \E t \in TokenInputs : Idle /\ download_share_get(t)

SpecFail == Init /\ [][NextFail]_vars

\* C21: when the write of the store file fails during share, the request fails and
\* the table is as it was before the request: the token drawn for it is not in it.
C21_FailedIssueLeavesTable ==
    (req.op = "share" /\ resp = ServerError /\ Idle)
      => ShareToken(issued.share) \notin DOMAIN SHARES

\* ------------------------------------------------------------------ concurrent /share requests
\* Each client sends one request; the requests are in flight together and the event
\* loop takes them in any order. share is a coroutine without an await: once the
\* loop has started it, it runs to its return before any other handler starts.
Callers == 1..MaxCallers
InFlight == {c \in DOMAIN calls : calls[c].pc = "sent"}
Returned == {c \in DOMAIN calls : calls[c].pc = "returned"}

\* client c sends GET /share/{path}?ttl=&pw=
submit(c, path, ttl, pw) ==
    /\ c \notin DOMAIN calls
    /\ calls' = [k \in DOMAIN calls \cup {c} |->
                    IF k = c THEN [pc |-> "sent", path |-> path, ttl |-> ttl, pw |-> pw,
                                   token |-> None, raced |-> InFlight # {}]
                    ELSE IF calls[k].pc = "sent" THEN [calls[k] EXCEPT !.raced = TRUE]
                    ELSE calls[k]]
    /\ UNCHANGED <<now, TOKENS, SHARES, file, issued, req, resp, probe, given, tree, writer>>

\* the event loop runs the handler for c's request and c gets the answer
serve(c) ==
    /\ c \in InFlight
    /\ issue(None, calls[c].path, calls[c].ttl, calls[c].pw)
    /\ calls' = [calls EXCEPT ![c].pc = "returned", ![c].token = resp'.of]

NextIssue ==
    \/ Tick /\ UNCHANGED calls
    \/ \E c \in Callers, path \in StorePaths, ttl \in Ttls, pw \in SharePasswords :
          submit(c, path, ttl, pw)
    \/ \E c \in Callers : serve(c)

SpecIssue == Init /\ [][NextIssue]_vars

\* C12: whatever the order in which concurrent /share requests are served, the
\* clients that have their answer hold distinct tokens, each token is in the table
\* with the entry asked for, and the store file parses and holds every one of them:
\* a token is in the file from the moment its request returns.
C12_ConcurrentIssuesAllKept ==
    /\ Cardinality({calls[c].token : c \in Returned}) = Cardinality(Returned)
    /\ Cardinality(DOMAIN SHARES) = Cardinality(Returned)
    /\ Returned # {} => file.state = "json"
    /\ \A c \in Returned :
          LET t == calls[c].token IN
          /\ t \in DOMAIN SHARES
          /\ get(SHARES[t], "path") = Some(calls[c].path)
          /\ get(SHARES[t], "exp") = None <=> calls[c].ttl <= 0
          /\ get(SHARES[t], "pw_hash")
                = (IF calls[c].pw = "" THEN None ELSE Some(hash_pw(calls[c].pw)))
          /\ t \in DOMAIN file.doc
          /\ loads(file.doc)[t] = SHARES[t]

\* every client has its answer, and the requests were in flight together
C12_Witness ==
    /\ Returned = Callers
    /\ \A c \in Callers : calls[c].raced

\* ------------------------------------------------------------------ share links: claims
\* p is the root or lies below it, component by component
UnderRoot(p) ==
    LET root == Cwd \o STORAGE IN
    Len(p) >= Len(root) /\ SubSeq(p, 1, Len(root)) = root

RedeemOps == {"shared", "download_share_get", "download_share_post"}
DownloadOps == {"download_share_get", "download_share_post"}

\* the path of an entry exists under the storage root
TargetUnderRoot(d) ==
    LET r == safe_path(d["path"][1]) IN
    r.ok /\ UnderRoot(r.p) /\ (is_file(r.p) \/ is_dir(r.p))

\* C1: a /share request without a valid session is answered Unauthorized and leaves
\* the share table and the store file as they were.
C1_UnauthorizedIssueCreatesNothing ==
    [][(req'.op = "share" /\ ~is_login(req'.cookie))
         => (resp'.code = 401 /\ SHARES' = SHARES /\ file' = file)]_vars

\* C2: no entry of the share table or of the store file maps a token to a path that
\* escapes the storage root or does not exist under it.
C2_NoEntryForBadPath ==
    /\ \A t \in DOMAIN SHARES : TargetUnderRoot(SHARES[t])
    /\ \A t \in DOMAIN file.doc : TargetUnderRoot(loads(file.doc)[t])

\* C3: a download of a token without password, found in the table with expiry
\* t0 + T, succeeds at every time before t0 + T and is answered as expired (404) at
\* every time at or after t0 + T.
C3_ExpiredAtOrAfterTtl ==
    LET d == get(SHARES, req.token) IN
    (req.op = "download_share_get" /\ d # None /\ get(d, "exp") # None
        /\ get(d, "pw_hash") = None)
      => /\ now < d["exp"][1] => resp = download(d["path"][1])
         /\ now >= d["exp"][1] => resp = LinkInvalid

\* C4: a redeem request that finds the entry past its expiry and answers 404 removes
\* the entry from the share table.
C4_ExpiredRedeemReaps ==
    [][(req'.op \in RedeemOps /\ req'.token \in DOMAIN SHARES
          /\ expired(SHARES[req'.token]) /\ resp' = LinkInvalid)
         => req'.token \notin DOMAIN SHARES']_vars

\* C9: the in-memory table holds every entry of the store file that has not expired
\* (it is initialised from the file when the process starts).
C9_TableHoldsPersistedLiveEntries ==
    \A t \in DOMAIN file.doc :
        ~expired(loads(file.doc)[t]) => (t \in DOMAIN SHARES /\ SHARES[t] = loads(file.doc)[t])

\* C5: a token issued with ttl <= 0 stays in the table, without expiry, whatever time
\* has passed and however often load_shares has run, and no redeem request for it
\* is answered as expired.
C5_NoExpiryNeverExpires ==
    \A t \in DOMAIN given :
        given[t].ttl <= 0 =>
            /\ t \in DOMAIN SHARES
            /\ get(SHARES[t], "exp") = None
            /\ (req.op \in RedeemOps /\ req.token = t) => resp # LinkInvalid

\* time has passed, load_shares has reaped another token, and the token issued with
\* ttl <= 0 was downloaded
C5_Witness ==
    \E t, u \in DOMAIN given :
        /\ given[t].ttl <= 0 /\ now > 2
        /\ u \notin DOMAIN SHARES
        /\ req.op = "download_share_get" /\ req.token = t /\ resp.code = 200

\* C6: for a live token issued with a non-empty password P, POST with P is answered
\* with the target, POST with another, an empty or no password with WrongPassword,
\* GET with the password form; the target's content goes out only to P.
C6_PasswordGate ==
    LET t == req.token
        d == get(SHARES, t)
    IN  (req.op \in DownloadOps /\ d # None /\ ~expired(d) /\ given[t].pw # "")
          => /\ (req.op = "download_share_post" /\ req.pw = Some(given[t].pw))
                   => (resp = download(d["path"][1]) /\ resp.kind = "file")
             /\ (req.op = "download_share_post" /\ req.pw # Some(given[t].pw))
                   => resp = WrongPassword
             /\ req.op = "download_share_get" => resp.kind = "password_form"
             /\ resp.kind \in {"file", "zip"} => req.pw = Some(given[t].pw)

\* the password was given and the file went out
C6_Witness ==
    /\ req.op = "download_share_post" /\ req.token \in DOMAIN SHARES
    /\ given[req.token].pw = "a" /\ req.pw = Some("a")
    /\ resp.kind = "file"

\* an entry whose expiry has not passed: absent, or not before now
Live(e) == get(e, "exp") = None \/ e["exp"][1] >= now

\* C10: load_shares run on the file save_shares wrote for a table leaves exactly the
\* entries of that table whose expiry is absent or has not passed, each as it was, in
\* the table and in the file.
C10_SaveLoadRoundTrip ==
    [][(req'.op = "load_shares" /\ file = save_shares(SHARES))
         => /\ SHARES' = [t \in {k \in DOMAIN SHARES : Live(SHARES[k])} |-> SHARES[t]]
            /\ file'.state = "json"
            /\ loads(file'.doc) = SHARES']_vars

\* load_shares has reaped one token and kept one that has an expiry
C10_Witness ==
    /\ req.op = "load_shares"
    /\ \E t \in DOMAIN given : t \notin DOMAIN SHARES
    /\ \E t \in DOMAIN SHARES : get(SHARES[t], "exp") # None
    /\ file.state = "json" /\ DOMAIN file.doc = DOMAIN SHARES

\* a token the table knows, past its expiry
KnownExpired(t) ==
    t \in DOMAIN SHARES /\ get(SHARES[t], "exp") # None /\ SHARES[t]["exp"][1] < now
\* a token the table knows, not past its expiry, with a password
KnownProtected(t) ==
    t \in DOMAIN SHARES /\ ~KnownExpired(t) /\ get(SHARES[t], "pw_hash") # None

\* C13: on each redeem endpoint an unknown token, a known but expired token and a
\* missing or wrong password get three different answers.
C13_FailuresDistinguishable ==
    \A t, u, w \in TokenInputs :
        (KnownExpired(t) /\ u \notin DOMAIN SHARES)
          => /\ shared_response(t) # shared_response(u)
             /\ download_share_get_response(t) # download_share_get_response(u)
             /\ \A pw \in FormPasswords :
                   /\ download_share_post_response(t, pw) # download_share_post_response(u, pw)
                   /\ (KnownProtected(w) /\ download_share_post_response(w, pw) = WrongPassword)
                        => download_share_post_response(w, pw)
                             \notin {download_share_post_response(t, pw),
                                      download_share_post_response(u, pw)}

\* a token that was issued and is past its expiry or has been reaped
Dead(t) == t \in DOMAIN given /\ (t \notin DOMAIN SHARES \/ KnownExpired(t))

\* C17: a token that is expired or reaped stays so under every step (issue, redeem,
\* load, save, the clock), and every redeem request for it is answered 404.
C17_NoReactivation ==
    [][\A t \in TokenInputs :
          Dead(t) => /\ Dead(t)'
                     /\ (req'.op \in RedeemOps /\ req'.token = t) => resp' = LinkInvalid]_vars

\* a reaped token was asked for again and answered 404
C17_Witness ==
    /\ req.op \in DownloadOps
    /\ req.token \in DOMAIN given /\ req.token \notin DOMAIN SHARES
    /\ resp = LinkInvalid

\* C18: a redeem request leaves the table and the store file as they were, and no
\* step changes the path, expiry or password digest of an entry that stays in the
\* table; while a token is live its download succeeds as often as it is asked for.
C18_RedeemChangesNothing ==
    [][/\ req'.op \in RedeemOps => (SHARES' = SHARES /\ file' = file)
       /\ \A t \in DOMAIN SHARES \cap DOMAIN SHARES' : SHARES'[t] = SHARES[t]
       /\ (req'.op = "download_share_get" /\ req'.token \in DOMAIN SHARES
             /\ ~KnownExpired(req'.token) /\ given[req'.token].pw = "")
            => resp'.kind = "file"]_vars

\* a live token with a password was downloaded while the table holds two entries,
\* and the store file holds that table
C18_Witness ==
    /\ req.op = "download_share_post" /\ resp.kind = "file"
    /\ req.token \in DOMAIN SHARES /\ given[req.token].pw = "a"
    /\ file = save_shares(SHARES)
    /\ Cardinality(DOMAIN SHARES) = 2

\* ------------------------------------------------------------------ the file tree
\* the routes that read and change the files and directories under STORAGE, with
\* the sessions that guard them. storage/shares.json is held in `file`, it is not
\* an entry of `tree`.
Parent(p) == SubSeq(p, 1, Len(p) - 1)
Prefixes(p) == {SubSeq(p, 1, k) : k \in 0..Len(p)}
\* q lies below the directory p
Below(q, p) == Len(q) > Len(p) /\ SubSeq(q, 1, Len(p)) = p

\* d / name, as the system call follows it: a name that starts with "/" replaces d
Join(d, name) ==
    IF name # <<>> /\ Head(name) = "/" THEN Walk(<<>>, Parts(name)) ELSE Walk(d, Parts(name))

RECURSIVE Walkable(_, _, _)
\* the system call can follow the components from base: each one, ".." too, is
\* looked up in a directory that exists
Walkable(t, base, parts) ==
    IF parts = <<>> THEN TRUE
    ELSE base \in t.dirs /\ Walkable(t, Walk(base, <<Head(parts)>>), Tail(parts))

\* d / name can be followed in the tree t
Follows(t, d, name) ==
    Walkable(t, IF name # <<>> /\ Head(name) = "/" THEN <<>> ELSE d, Parts(name))

\* Path.mkdir(exist_ok=True) in the tree t: a directory that is there is left alone;
\* a file of that name, or no parent directory, is an OSError
mkdir_p(t, p) ==
    IF p \in t.dirs THEN [ok |-> TRUE, tree |-> t]
    ELSE IF p \in t.files \/ Parent(p) \notin t.dirs THEN [ok |-> FALSE, tree |-> t]
    ELSE [ok |-> TRUE, tree |-> [t EXCEPT !.dirs = @ \cup {p}]]

\* Path.mkdir(parents=True, exist_ok=True): the missing directories above p too;
\* a file on the way is an OSError and nothing is created
mkdir_parents(t, p) ==
    IF p \in t.dirs THEN [ok |-> TRUE, tree |-> t]
    ELSE IF Prefixes(p) \cap t.files # {} THEN [ok |-> FALSE, tree |-> t]
    ELSE [ok |-> TRUE, tree |-> [t EXCEPT !.dirs = @ \cup Prefixes(p)]]

\* open(p, "wb") and write: the parent has to be a directory and p must not be one
write_file(t, p) ==
    IF p \in t.dirs \/ Parent(p) \notin t.dirs THEN [ok |-> FALSE, tree |-> t]
    ELSE [ok |-> TRUE, tree |-> [t EXCEPT !.files = @ \cup {p}]]

\* the try block of delete: a file is unlinked; else every file below p is unlinked
\* and p.rmdir() follows, which fails when p is no directory or still holds one
remove(t, p) ==
    IF p \in t.files THEN [ok |-> TRUE, tree |-> [t EXCEPT !.files = @ \ {p}]]
    ELSE IF p \notin t.dirs THEN [ok |-> FALSE, tree |-> t]
    ELSE LET kept == {f \in t.files : ~Below(f, p)} IN
         IF \E q \in t.dirs : Below(q, p)
         THEN [ok |-> FALSE, tree |-> [t EXCEPT !.files = kept]]
         ELSE [ok |-> TRUE, tree |-> [files |-> kept, dirs |-> t.dirs \ {p}]]

\* the directories a request names ("" is the root), the names of new entries and
\* the paths asked to be deleted or downloaded
TreeDirs == { <<>>, <<"a">> }
Names == { <<"f">>, <<"a">> }
TreePaths == { <<"d">>, <<"a">>, <<"a", "/", "f">> }

\* a long wait: every session that exists runs out
Sleep ==
    /\ now <= MaxTime
    /\ now' = now + TOKEN_TTL
    /\ req' = Request("sleep", None, None, <<>>, 0, None)
    /\ resp' = Response(0, "none", <<>>)
    /\ UNCHANGED <<TOKENS, SHARES, file, issued, probe, given, tree, writer, calls>>

\* GET /logout: the browser sends its cookie, the handler does not look at it
logout(cookie) ==
    /\ req' = Request("logout", cookie, None, <<>>, 0, None)
    /\ resp' = Response(302, "cookie_deleted", <<>>)
    /\ UNCHANGED <<now, TOKENS, SHARES, file, issued, probe, given, tree, writer, calls>>

\* index that creates the directory for anyone
index_unchecked(cookie, path) ==
    LET r == safe_path(path)
        made == mkdir_parents(tree, r.p)
    IN  /\ req' = Request("index", cookie, None, path, 0, None)
        /\ IF ~r.ok \/ is_file(r.p) \/ ~made.ok
           THEN resp' = ServerError /\ tree' = tree
           ELSE resp' = Response(200, "listing", r.p) /\ tree' = made.tree
        /\ UNCHANGED <<now, TOKENS, SHARES, file, issued, probe, given, writer, calls>>

\* GET /?path=
index(cookie, path) ==
    LET r == safe_path(path)
        made == mkdir_parents(tree, r.p)
    IN  /\ req' = Request("index", cookie, None, path, 0, None)
        /\ IF ~r.ok THEN resp' = ServerError /\ tree' = tree
           ELSE IF is_dir(r.p) THEN resp' = Response(200, "listing", r.p) /\ tree' = tree
           \* p.iterdir() of a file
           ELSE IF is_file(r.p) THEN resp' = ServerError /\ tree' = tree
           ELSE IF ~is_login(cookie)
                THEN resp' = Response(404, "no_directory", <<>>) /\ tree' = tree
           ELSE IF ~made.ok THEN resp' = ServerError /\ tree' = tree
           ELSE resp' = Response(200, "listing", r.p) /\ tree' = made.tree
        /\ UNCHANGED <<now, TOKENS, SHARES, file, issued, probe, given, writer, calls>>

\* POST /upload
upload(cookie, path, filename) ==
    LET r == safe_path(path)
        made == mkdir_p(tree, r.p)
        written == write_file(made.tree, Join(r.p, filename))
    IN  /\ req' = Request("upload", cookie, None, path, 0, None)
        /\ IF ~is_login(cookie) THEN resp' = Response(302, "redirect", <<>>) /\ tree' = tree
           ELSE IF ~r.ok \/ ~made.ok THEN resp' = ServerError /\ tree' = tree
           ELSE IF ~Follows(made.tree, r.p, filename) \/ ~written.ok
                THEN resp' = ServerError /\ tree' = made.tree
           ELSE resp' = Response(200, "ok", Join(r.p, filename)) /\ tree' = written.tree
        /\ UNCHANGED <<now, TOKENS, SHARES, file, issued, probe, given, writer, calls>>

\* POST /mkdir
mkdir(cookie, path, name) ==
    LET r == safe_path(path)
        made == mkdir_p(tree, Join(r.p, name))
    IN  /\ req' = Request("mkdir", cookie, None, path, 0, None)
        /\ IF ~is_login(cookie) THEN resp' = Response(200, "empty", <<>>) /\ tree' = tree
           ELSE IF ~r.ok \/ ~Follows(tree, r.p, name) \/ ~made.ok
                THEN resp' = ServerError /\ tree' = tree
           ELSE resp' = Response(200, "ok", Join(r.p, name)) /\ tree' = made.tree
        /\ UNCHANGED <<now, TOKENS, SHARES, file, issued, probe, given, writer, calls>>

\* GET /delete/{path}
delete(cookie, path) ==
    LET r == safe_path(path)
        gone == remove(tree, r.p)
    IN  /\ req' = Request("delete", cookie, None, path, 0, None)
        /\ IF ~is_login(cookie)
           THEN resp' = Response(302, "delete_failed", <<>>) /\ tree' = tree
           ELSE IF ~r.ok THEN resp' = ServerError /\ tree' = tree
           ELSE IF ~gone.ok THEN resp' = Response(302, "delete_failed", r.p) /\ tree' = gone.tree
           ELSE resp' = Response(302, "deleted", r.p) /\ tree' = gone.tree
        /\ UNCHANGED <<now, TOKENS, SHARES, file, issued, probe, given, writer, calls>>

\* GET /download/{path}: the handler takes no Request, it cannot see a cookie
download_route(cookie, path) ==
    /\ req' = Request("download", cookie, None, path, 0, None)
    /\ resp' = download(path)
    /\ UNCHANGED <<now, TOKENS, SHARES, file, issued, probe, given, tree, writer, calls>>

NextTree ==
    \/ Sleep
    \/ \E u, p \in Credentials : login(u, p)
    \/ \E c \in Cookies : logout(c)
    \/ \E c \in Cookies, path \in TreeDirs : index(c, path)
    \/ \E c \in Cookies, path \in TreeDirs, n \in Names : upload(c, path, n)
    \/ \E c \in Cookies, path \in TreeDirs, n \in Names : mkdir(c, path, n)
    \/ \E c \in Cookies, path \in TreePaths : delete(c, path)

SpecTree == Init /\ [][NextTree]_vars

MutatingOps == {"index", "upload", "mkdir", "delete"}

\* C15: upload, mkdir, delete and the directory creation of the index route leave
\* the file tree as it is when the request's cookie is no token of the session
\* table with an expiry in the future.
C15_NoSessionNoChange ==
    [][(req'.op \in MutatingOps /\ ~is_login(req'.cookie)) => tree' = tree]_vars

\* a delete that came with a session token past its expiry was refused, after the
\* tree had been changed under the session while it was valid
C15_Witness ==
    /\ req.op = "delete"
    /\ req.cookie \in DOMAIN TOKENS
    /\ ~is_login(req.cookie)
    /\ resp = Response(302, "delete_failed", <<>>)
    /\ tree.dirs # DIRS
    /\ tree.files # FILES

\* C16: after logout a request with the token of that session is not authenticated,
\* and a token that a request presented after its expiry is no longer in the
\* session table.
C16_SessionDestroyed ==
    /\ req.op = "logout" => ~is_login(req.cookie)
    /\ (req.op \in MutatingOps /\ req.cookie \in DOMAIN TOKENS) => TOKENS[req.cookie] > now

\* ------------------------------------------------------------------ names of new entries
\* upload and mkdir with any name a client can send: python-multipart hands the
\* filename of the part on as it came, and `name` is a plain query parameter
\* "f": a plain name; "../x": one level up; "/x": from the top of the file system
AnyNames == { <<"f">>, <<".", ".", "/", "x">>, <<"/", "x">> }

NextNames ==
    \/ \E u, p \in Credentials : login(u, p)
    \/ \E c \in Cookies, path \in TreeDirs, n \in AnyNames : upload(c, path, n)
    \/ \E c \in Cookies, path \in TreeDirs, n \in AnyNames : mkdir(c, path, n)

SpecNames == Init /\ [][NextNames]_vars

\* C22: every file and every directory that upload and mkdir create lies under the
\* storage root, whatever the path and the name.
C22_CreatedUnderRoot ==
    \A p \in (tree.files \cup tree.dirs) \ (FILES \cup DIRS) : UnderRoot(p)

\* ------------------------------------------------------------------ links and their targets
\* share links next to the routes that serve and delete what they point to
NextTarget ==
    \/ Tick
    \/ \E u, p \in Credentials : login(u, p)
    \/ \E path \in StorePaths, ttl \in Ttls, pw \in SharePasswords :
          share(None, path, ttl, pw)
    \/ \E c \in Cookies, path \in StorePaths : delete(c, path)
    \/ \E c \in Cookies, path \in TreePaths : download_route(c, path)
    \/ \E t \in TokenInputs : shared(t)
    \/ \E t \in TokenInputs : download_share_get(t)
    \/ \E t \in TokenInputs, pw \in FormPasswords : download_share_post(t, pw)

SpecTarget == Init /\ [][NextTarget]_vars

\* C14: a request without a valid session gets the content of a path under the
\* root only from a share download, of a token that is in the table, not expired,
\* and with the password of the entry when it has one.
C14_ContentOnlyByLiveToken ==
    (resp.kind \in {"file", "zip"} /\ UnderRoot(resp.of) /\ ~is_login(req.cookie))
      => /\ req.op \in DownloadOps
         /\ req.token \in DOMAIN SHARES
         /\ ~KnownExpired(req.token)
         /\ get(SHARES[req.token], "pw_hash") # None
              => (req.pw # None /\ Some(hash_pw(req.pw[1])) = SHARES[req.token]["pw_hash"])

\* the target of the token of the last request is neither a file nor a directory
TargetGone ==
    /\ req.token \in DOMAIN SHARES
    /\ LET r == safe_path(SHARES[req.token]["path"][1])
       IN  r.ok /\ ~is_file(r.p) /\ ~is_dir(r.p)

\* C19: when the target of a token no longer exists under the root, the page of
\* the link and both downloads answer with a failure (the password form, which
\* serves nothing yet, is not counted as a success).
C19_GoneTargetFails ==
    (req.op \in RedeemOps /\ TargetGone)
      => (resp.code >= 400 \/ resp.kind = "password_form")

\* ------------------------------------------------------------------ load_shares on its own
\* load_shares called with any table in memory and any store file: none, one that
\* does not parse (damaged from outside), or the serialisation of a table
Corrupt == [state |-> "corrupt", doc |-> EmptyTable]
LoadEntries ==
    {[path |-> Some(<<"d">>), exp |-> e] : e \in {None} \cup {Some(k) : k \in 2..(MaxTime + 1)}}
LoadTables == UNION {[D -> LoadEntries] : D \in SUBSET TokenInputs}

InitLoad ==
    /\ now \in 1..MaxTime
    /\ TOKENS = EmptyTable
    /\ SHARES \in LoadTables
    /\ file \in {Missing, Corrupt} \cup {save_shares(T) : T \in LoadTables}
    /\ issued = [share |-> 0, session |-> 0]
    /\ req = Request("start", None, None, <<>>, 0, None)
    /\ resp = Response(0, "none", <<>>)
    /\ probe = NoProbe
    /\ given = EmptyTable
    /\ tree = [files |-> FILES, dirs |-> DIRS]
    /\ writer = NoWriter
    /\ calls = NoCalls

NextLoad ==
    \/ Tick
    \/ load_shares

SpecLoad == InitLoad /\ [][NextLoad]_vars

\* C20: load_shares on a missing or unparseable store file ends with the in-memory
\* table empty, whatever it held before. (On a file that does not parse the code
\* does empty the table; without a file it keeps what the table held.)
C20_LoadFailureEmptiesTable ==
    [][(req'.op = "load_shares" /\ file.state \in {"missing", "corrupt"})
         => SHARES' = EmptyTable]_vars

\* ------------------------------------------------------------------ safe_path on its own
\* the characters of the relative paths tried: with them ".", "..", the root's own
\* name "s" and the sibling name "s2" can be written
PathChars == {"/", ".", "s", "2"}
RelPaths == UNION {[1..n -> PathChars] : n \in 0..MaxLen}

InitPath ==
    /\ now = 1
    /\ TOKENS = EmptyTable
    /\ SHARES = EmptyTable
    /\ file = Missing
    /\ issued = [share |-> 0, session |-> 0]
    /\ req = Request("start", None, None, <<>>, 0, None)
    /\ resp = Response(0, "none", <<>>)
    /\ given = EmptyTable
    /\ tree = [files |-> FILES, dirs |-> DIRS]
    /\ writer = NoWriter
    /\ calls = NoCalls
    /\ \E rel \in RelPaths : probe = [rel |-> rel, out |-> [ok |-> FALSE, p |-> <<>>], done |-> FALSE]

\* one call of safe_path(rel)
call_safe_path ==
    /\ ~probe.done
    /\ probe' = [probe EXCEPT !.out = safe_path(probe.rel), !.done = TRUE]
    /\ UNCHANGED <<now, TOKENS, SHARES, file, issued, req, resp, given, tree, writer, calls>>

SpecPath == InitPath /\ [][call_safe_path]_vars

\* where rel points when it is read relative to the root, "." and ".." followed
PointsTo(rel) == Walk(Cwd \o STORAGE, Parts(rel))

\* rel has a ".." segment
HasDotDot(rel) == \E i \in 1..Len(Parts(rel)) : Parts(rel)[i] = <<".", ".">>

\* p lies beside the root, in an entry whose name starts with the root's name
BesideRootSameStart(p) ==
    LET root == Cwd \o STORAGE
        n == Len(root)
    IN  /\ Len(p) >= n
        /\ SubSeq(p, 1, n - 1) = SubSeq(root, 1, n - 1)
        /\ p[n] # root[n]
        /\ startswith(p[n], root[n])

\* C7: whatever safe_path returns is the storage root or a descendant of it; a path
\* into a sibling whose name starts with the root's name is rejected.
C7_ResolvedUnderRoot ==
    (probe.done /\ probe.out.ok) => UnderRoot(probe.out.p)

\* C8 as stated: every path with a ".." segment or a leading "/" is rejected, and
\* every path that stays within the root is accepted with a result under the root.
C8_DotDotOrSlashRejected ==
    probe.done =>
        /\ (HasDotDot(probe.rel) \/ (probe.rel # <<>> /\ Head(probe.rel) = "/"))
              => ~probe.out.ok
        /\ UnderRoot(PointsTo(probe.rel))
              => (probe.out.ok /\ UnderRoot(probe.out.p))

\* C8 amended: a path is rejected when, read relative to the root, it points outside
\* the root and not into a sibling whose name starts with the root's name; a path
\* that points within the root (leading "/" and inner ".." included) is accepted and
\* the result is the place it points to, the root or a descendant.
C8_OutsideRejectedInsideAccepted ==
    probe.done =>
        /\ (~UnderRoot(PointsTo(probe.rel)) /\ ~BesideRootSameStart(PointsTo(probe.rel)))
              => ~probe.out.ok
        /\ UnderRoot(PointsTo(probe.rel))
              => (probe.out.ok /\ probe.out.p = PointsTo(probe.rel) /\ UnderRoot(probe.out.p))

\* a path with a leading "/" and a ".." segment that points within the root was accepted
C8_Witness ==
    /\ probe.done /\ probe.out.ok
    /\ probe.rel # <<>> /\ Head(probe.rel) = "/"
    /\ HasDotDot(probe.rel)
    /\ UnderRoot(probe.out.p)

====
